---- MODULE Spec2Model ----
(***************************************************************************)
(* A model of the location task reminder (src/src/App.jsx): the React      *)
(* component LocationTaskApp, its state, its event handlers and the        *)
(* geolocation watch that its effect subscribes.                           *)
(*                                                                         *)
(* Numbers.  Latitudes and longitudes are fixed-point integers in units    *)
(* of 1e-4 degree (40.0005 degrees is 400005).  Distances are whole        *)
(* metres.  Text that the code inspects character by character (the maps   *)
(* URL) is a sequence of one-character strings.                            *)
(*                                                                         *)
(* React.  A handler's state updates are applied in one batch, the         *)
(* component renders, and the effect of lines 15-35 runs again when        *)
(* `tracking` or `tasks` changed (a new array always counts as changed).   *)
(* The callback handed to watchPosition calls the checkProximity of the    *)
(* render in which the effect ran, so it reads that render's `tasks` and   *)
(* `notifiedTasks`: cbTasks and cbNotifiedTasks below.  State updaters of  *)
(* the form setX(prev => ...) read the current state instead.  The effect  *)
(* of a click's render is flushed before the browser delivers the next     *)
(* event, so a handler's action includes the re-subscription.              *)
(*                                                                         *)
(* Spec is the application under every input of the sets below;            *)
(* SpecFilled is the same handlers under a user who fills the form from    *)
(* top to bottom with a URL that carries coordinates; SpecResume is        *)
(* SpecFilled with the history of what a stop of tracking carried over;    *)
(* SpecForm and SpecPaste are the handlers under a user who types into the *)
(* fields in any order.  SpecExtract and SpecDistance call                 *)
(* extractCoordinates and calculateDistance directly, on arguments drawn   *)
(* by their initial states.                                                *)
(***************************************************************************)
EXTENDS Integers, Sequences, FiniteSets, TLC

VARIABLES
    tasks,            \* useState([])          line 5
    taskName,         \* useState('')          line 6
    locationName,     \* useState('')          line 7
    googleMapsUrl,    \* useState('')          line 8
    userLocation,     \* useState(null)        line 9
    notifications,    \* useState([])          line 10
    tracking,         \* useState(false)       line 11
    notifiedTasks,    \* useState(new Set())   line 12
    watching,         \* a watchPosition subscription is active (lines 16-33)
    cbTasks,          \* `tasks` as closed over by the subscribed callback
    cbNotifiedTasks,  \* `notifiedTasks` as closed over by the subscribed callback
    now,              \* the value Date.now() returns
    alerted,          \* history: ids of the tasks the last handler alerted for
    alertMsg,         \* history: the window.alert text of the last handler
    hushed,           \* history: ids alerted for and not yet moved away from
    carried,          \* history: ids suppressed when tracking was last stopped
                      \* and neither moved away from nor deleted since
    callArgs,         \* the arguments of a direct call of extractCoordinates
                      \* or calculateDistance
    callResult        \* what that call returned

vars == <<tasks, taskName, locationName, googleMapsUrl, userLocation,
          notifications, tracking, notifiedTasks, watching, cbTasks,
          cbNotifiedTasks, now, alerted, alertMsg, hushed, carried,
          callArgs, callResult>>

-----------------------------------------------------------------------------
(* Bounds of the model *)

MaxTasks == 2
MaxNotifications == 2
MaxClock == 1
MaxSegments == 2

-----------------------------------------------------------------------------
(* JavaScript values *)

\* `undefined`: what coords.lat is when coords is the string 'SHORT_URL'
Undefined == -9999999
\* NaN: what the haversine arithmetic yields on an undefined operand
NaN == -1
\* Number.MIN_VALUE, 5e-324 degrees: the smallest number above zero, below the
\* 1e-4 degree of the fixed-point numbers
MinValue == 9999999
\* null, as the value of userLocation before the first position
Null == [lat |-> Undefined, lng |-> Undefined]
\* a value that is no string (a number, null, undefined, an object), where a
\* string is a sequence of one-character strings
NotAString == <<"not a string">>

-----------------------------------------------------------------------------
(* Inputs *)

\* https://maps.google.com/@40.0000,-75.0000,15z
UrlAt ==
    <<"h", "t", "t", "p", "s", ":", "/", "/", "m", "a", "p", "s", ".", "g", "o",
    "o", "g", "l", "e", ".", "c", "o", "m", "/", "@", "4", "0", ".", "0", "0",
    "0", "0", ",", "-", "7", "5", ".", "0", "0", "0", "0", ",", "1", "5", "z">>

\* https://maps.google.com/?q=40.0315,-75.0000
UrlQuery ==
    <<"h", "t", "t", "p", "s", ":", "/", "/", "m", "a", "p", "s", ".", "g", "o",
    "o", "g", "l", "e", ".", "c", "o", "m", "/", "?", "q", "=", "4", "0", ".",
    "0", "3", "1", "5", ",", "-", "7", "5", ".", "0", "0", "0", "0">>

\* https://maps.app.goo.gl/aB3
UrlShort ==
    <<"h", "t", "t", "p", "s", ":", "/", "/", "m", "a", "p", "s", ".", "a", "p",
    "p", ".", "g", "o", "o", ".", "g", "l", "/", "a", "B", "3">>

\* https://example.com/map
UrlPlain ==
    <<"h", "t", "t", "p", "s", ":", "/", "/", "e", "x", "a", "m", "p", "l", "e",
    ".", "c", "o", "m", "/", "m", "a", "p">>

\* https://maps.google.com/@95.0000,-75.0000,15z
UrlNorth ==
    <<"h", "t", "t", "p", "s", ":", "/", "/", "m", "a", "p", "s", ".", "g", "o",
    "o", "g", "l", "e", ".", "c", "o", "m", "/", "@", "9", "5", ".", "0", "0",
    "0", "0", ",", "-", "7", "5", ".", "0", "0", "0", "0", ",", "1", "5", "z">>

\* what the user can type into the three form fields
TaskNames == {"", "Buy drill"}
LocationNames == {"", "Home Depot"}
Urls == {<<>>, UrlAt, UrlQuery, UrlShort, UrlPlain}

\* positions the location stream reports: on the meridian of the two task
\* coordinates, about 1000 m, 1500 m, 2000 m and 3500 m north of 40.0000
Positions ==
    { [lat |-> 400090, lng |-> -750000], [lat |-> 400135, lng |-> -750000],
      [lat |-> 400180, lng |-> -750000], [lat |-> 400315, lng |-> -750000] }

-----------------------------------------------------------------------------
(* extractCoordinates, lines 38-78 *)

Digits == {"0", "1", "2", "3", "4", "5", "6", "7", "8", "9"}

DigitVal(c) ==
    CASE c = "0" -> 0 [] c = "1" -> 1 [] c = "2" -> 2 [] c = "3" -> 3
      [] c = "4" -> 4 [] c = "5" -> 5 [] c = "6" -> 6 [] c = "7" -> 7
      [] c = "8" -> 8 [] c = "9" -> 9

\* the index after the longest run of digits that starts at i (\d* is greedy)
RECURSIVE DigitsEnd(_, _)
DigitsEnd(s, i) ==
    IF i <= Len(s) /\ s[i] \in Digits THEN DigitsEnd(s, i + 1) ELSE i

\* -?\d+\.\d+ matched at i: the index after the match, 0 when it does not match
NumberEnd(s, i) ==
    LET j == IF i <= Len(s) /\ s[i] = "-" THEN i + 1 ELSE i
        k == DigitsEnd(s, j)
    IN  IF k > j /\ k <= Len(s) /\ s[k] = "." /\ DigitsEnd(s, k + 1) > k + 1
        THEN DigitsEnd(s, k + 1)
        ELSE 0

\* the literal text lit stands in s at i
LiteralAt(s, i, lit) ==
    /\ i >= 1
    /\ i + Len(lit) - 1 <= Len(s)
    /\ \A k \in 1..Len(lit) : s[i + k - 1] = lit[k]

\* String.prototype.includes
Includes(s, lit) == \E i \in 1..Len(s) : LiteralAt(s, i, lit)

\* the value of a run of digits
RECURSIVE DigitsValue(_)
DigitsValue(d) ==
    IF d = <<>> THEN 0
    ELSE 10 * DigitsValue(SubSeq(d, 1, Len(d) - 1)) + DigitVal(d[Len(d)])

\* parseFloat of a text matched by -?\d+\.\d+, in units of 1e-4 (the model keeps
\* four fractional digits)
parseFloat(t) ==
    LET neg  == t[1] = "-"
        u    == IF neg THEN Tail(t) ELSE t
        dot  == DigitsEnd(u, 1)
        frac == SubSeq(u, dot + 1, Len(u))
        f4   == SubSeq(frac \o <<"0", "0", "0", "0">>, 1, 4)
        v    == DigitsValue(SubSeq(u, 1, dot - 1)) * 10000 + DigitsValue(f4)
    IN  IF neg THEN 0 - v ELSE v

\* pre(-?\d+\.\d+)sep(-?\d+\.\d+) matched at i
PairAt(s, i, pre, sep) ==
    LET a  == i + Len(pre)
        e1 == NumberEnd(s, a)
        b  == e1 + Len(sep)
    IN  /\ LiteralAt(s, i, pre)
        /\ e1 # 0
        /\ LiteralAt(s, e1, sep)
        /\ NumberEnd(s, b) # 0

\* the two capture groups of the match at i
PairCoords(s, i, pre, sep) ==
    LET a  == i + Len(pre)
        e1 == NumberEnd(s, a)
        b  == e1 + Len(sep)
        e2 == NumberEnd(s, b)
    IN  [tag |-> "coords",
         lat |-> parseFloat(SubSeq(s, a, e1 - 1)),
         lng |-> parseFloat(SubSeq(s, b, e2 - 1))]

\* url.match: the leftmost index where the pattern matches, 0 when none does
FirstPair(s, pre, sep) ==
    IF \E i \in 1..Len(s) : PairAt(s, i, pre, sep)
    THEN CHOOSE i \in 1..Len(s) :
            /\ PairAt(s, i, pre, sep)
            /\ \A j \in 1..(i - 1) : ~PairAt(s, j, pre, sep)
    ELSE 0

\* the index after the longest run of characters other than "/" ([^/]+)
RECURSIVE NonSlashEnd(_, _)
NonSlashEnd(s, i) ==
    IF i <= Len(s) /\ s[i] # "/" THEN NonSlashEnd(s, i + 1) ELSE i

PlacePrefix == <<"/", "m", "a", "p", "s", "/", "p", "l", "a", "c", "e", "/">>

\* /\/maps\/place\/[^/]+\/@(-?\d+\.\d+),(-?\d+\.\d+)/ matched at i: the index of
\* its "/@", 0 when it does not match
PlaceAt(s, i) ==
    LET a == i + Len(PlacePrefix)
        e == NonSlashEnd(s, a)
    IN  IF /\ LiteralAt(s, i, PlacePrefix)
           /\ e > a
           /\ PairAt(s, e, <<"/", "@">>, <<",">>)
        THEN e
        ELSE 0

FirstPlace(s) ==
    IF \E i \in 1..Len(s) : PlaceAt(s, i) # 0
    THEN PlaceAt(s, CHOOSE i \in 1..Len(s) :
                        /\ PlaceAt(s, i) # 0
                        /\ \A j \in 1..(i - 1) : PlaceAt(s, j) = 0)
    ELSE 0

ShortUrl == [tag |-> "SHORT_URL", lat |-> Undefined, lng |-> Undefined]
NoCoords == [tag |-> "null", lat |-> Undefined, lng |-> Undefined]

\* extractCoordinates with the q= pattern tried before the @ pattern
extractCoordinatesQueryFirst(url) ==
    LET m1 == FirstPair(url, <<"@">>, <<",">>)
        m2 == FirstPair(url, <<"q", "=">>, <<",">>)
        m3 == FirstPair(url, <<"!", "3", "d">>, <<"!", "4", "d">>)
        m4 == FirstPlace(url)
    IN  IF url = NotAString THEN NoCoords
        ELSE IF m2 # 0 THEN PairCoords(url, m2, <<"q", "=">>, <<",">>)
        ELSE IF m1 # 0 THEN PairCoords(url, m1, <<"@">>, <<",">>)
        ELSE IF m3 # 0
             THEN PairCoords(url, m3, <<"!", "3", "d">>, <<"!", "4", "d">>)
        ELSE IF m4 # 0 THEN PairCoords(url, m4, <<"/", "@">>, <<",">>)
        ELSE IF \/ Includes(url, <<"m", "a", "p", "s", ".", "a", "p", "p", ".",
                                   "g", "o", "o", ".", "g", "l">>)
                \/ Includes(url, <<"g", "o", "o", ".", "g", "l">>)
             THEN ShortUrl
        ELSE NoCoords

\* url.match of a value that is no string throws a TypeError (line 42), which
\* the catch of lines 75-77 turns into null
extractCoordinates(url) ==
    LET m1 == FirstPair(url, <<"@">>, <<",">>)
        m2 == FirstPair(url, <<"q", "=">>, <<",">>)
        m3 == FirstPair(url, <<"!", "3", "d">>, <<"!", "4", "d">>)
        m4 == FirstPlace(url)
    IN  IF url = NotAString THEN NoCoords
        ELSE IF m1 # 0 THEN PairCoords(url, m1, <<"@">>, <<",">>)
        ELSE IF m2 # 0 THEN PairCoords(url, m2, <<"q", "=">>, <<",">>)
        ELSE IF m3 # 0
             THEN PairCoords(url, m3, <<"!", "3", "d">>, <<"!", "4", "d">>)
        ELSE IF m4 # 0 THEN PairCoords(url, m4, <<"/", "@">>, <<",">>)
        ELSE IF \/ Includes(url, <<"m", "a", "p", "s", ".", "a", "p", "p", ".",
                                   "g", "o", "o", ".", "g", "l">>)
                \/ Includes(url, <<"g", "o", "o", ".", "g", "l">>)
             THEN ShortUrl
        ELSE NoCoords

-----------------------------------------------------------------------------
(* calculateDistance, lines 81-94 *)

Abs(x) == IF x < 0 THEN 0 - x ELSE x

\* R * (d * pi / 180) for an angle of d units of 1e-4 degree, in whole metres:
\* 6371e3 * pi / 180 / 10000 is 11.12 m for each unit
ArcMetres(d) == (d \div 100) * 1112 + ((d % 100) * 1112) \div 100

\* What an operand is worth in the arithmetic of lines 83-86.  MinValue times
\* Math.PI is three times MinValue, and that divided by 180 rounds to 0; a
\* difference of MinValue and a number of the fixed-point grid other than 0 is
\* that number, and MinValue less 0 is MinValue, which the same product turns
\* into 0.
Underflowed(x) == IF x = MinValue THEN 0 ELSE x

\* calculateDistance with the angle taken with its sign
calculateDistanceSigned(lat1, lon1, lat2, lon2) ==
    LET p1 == Underflowed(lat1)
        p2 == Underflowed(lat2)
        l1 == Underflowed(lon1)
        l2 == Underflowed(lon2)
    IN  CASE Undefined \in {lat1, lon1, lat2, lon2} -> NaN
          [] Undefined \notin {lat1, lon1, lat2, lon2} /\ l1 = l2 ->
                IF p2 >= p1 THEN ArcMetres(p2 - p1) ELSE 0 - ArcMetres(p1 - p2)
          [] Undefined \notin {lat1, lon1, lat2, lon2} /\ l1 # l2
                /\ p1 = 0 /\ p2 = 0 ->
                IF l2 >= l1 THEN ArcMetres(l2 - l1) ELSE 0 - ArcMetres(l1 - l2)

\* The haversine distance.  With an undefined operand the arithmetic is NaN.
\* On one meridian (lon1 = lon2) a is sin^2(dphi/2), so the result is R*|dphi|;
\* on the equator (lat1 = lat2 = 0) a is sin^2(dlambda/2), so the result is
\* R*|dlambda| folded into [0, 180] degrees.  The model's coordinates are all
\* of one of the two kinds.
calculateDistance(lat1, lon1, lat2, lon2) ==
    LET p1 == Underflowed(lat1)
        p2 == Underflowed(lat2)
        l1 == Underflowed(lon1)
        l2 == Underflowed(lon2)
    IN  CASE Undefined \in {lat1, lon1, lat2, lon2} -> NaN
          [] Undefined \notin {lat1, lon1, lat2, lon2} /\ l1 = l2 ->
                ArcMetres(Abs(p2 - p1))
          [] Undefined \notin {lat1, lon1, lat2, lon2} /\ l1 # l2
                /\ p1 = 0 /\ p2 = 0 ->
                LET d == Abs(l2 - l1) % 3600000
                IN  ArcMetres(IF d > 1800000 THEN 3600000 - d ELSE d)

\* JavaScript's <= and > on numbers: false when an operand is NaN
LessEq(x, y) == x # NaN /\ y # NaN /\ x <= y
Greater(x, y) == x # NaN /\ y # NaN /\ x > y

-----------------------------------------------------------------------------
(* The effect of lines 15-35 *)

\* 'geolocation' in navigator: the browser has the Geolocation API
GeolocationAvailable == TRUE

\* Subscribe with a callback that starts from an empty notifiedTasks
SubscribeForgets(newTracking, newTasks, newNotified) ==
    /\ watching' = (newTracking /\ GeolocationAvailable)
    /\ cbTasks' = IF newTracking /\ GeolocationAvailable THEN newTasks ELSE <<>>
    /\ cbNotifiedTasks' = {}

\* Subscribe for an effect that depends on `tracking` alone: a change of tasks
\* leaves the subscribed callback in place
SubscribeOnTracking(newTracking, newTasks, newNotified) ==
    /\ watching' = (newTracking /\ GeolocationAvailable)
    /\ cbTasks' = IF newTracking /\ GeolocationAvailable
                  THEN (IF watching THEN cbTasks ELSE newTasks)
                  ELSE <<>>
    /\ cbNotifiedTasks' =
          IF newTracking /\ GeolocationAvailable
          THEN (IF watching THEN cbNotifiedTasks ELSE newNotified)
          ELSE {}

\* The effect after a render in which `tracking` or `tasks` changed: the old
\* watch is cleared (line 33) and, when tracking, a new one is subscribed whose
\* callback closes over that render's tasks and notifiedTasks.
Subscribe(newTracking, newTasks, newNotified) ==
    /\ watching' = (newTracking /\ GeolocationAvailable)
    /\ cbTasks' = IF newTracking /\ GeolocationAvailable THEN newTasks ELSE <<>>
    /\ cbNotifiedTasks' =
           IF newTracking /\ GeolocationAvailable THEN newNotified ELSE {}

\* a render in which neither dependency changed: the subscription stays
KeepSubscription == UNCHANGED <<watching, cbTasks, cbNotifiedTasks>>

\* Date.now(): the wall clock in milliseconds.  Nothing makes two reads differ:
\* they may fall in one millisecond, and the clock may be set back to a value it
\* had before.  A read returns the last value read or the next one; the model
\* caps the clock at MaxClock.
ClockReads == {t \in {now, now + 1} : t <= MaxClock}

-----------------------------------------------------------------------------
(* checkProximity, lines 97-130 *)

proximityThreshold == 1609

DistanceTo(task, currentLocation) ==
    calculateDistance(currentLocation.lat, currentLocation.lng,
                      task.lat, task.lng)

\* the branch of lines 108-128 taken for one task; `notified` is the
\* notifiedTasks the running checkProximity closes over
Branch(task, currentLocation, notified) ==
    IF /\ LessEq(DistanceTo(task, currentLocation), proximityThreshold)
       /\ task.id \notin notified
    THEN "notify"
    ELSE IF Greater(DistanceTo(task, currentLocation), proximityThreshold * 2)
    THEN "reset"
    ELSE "none"

\* `Nearby reminder: ${task.name} at ${task.location}`, line 110
NotifText(task) == <<"Nearby reminder", task.name, task.location>>

\* prev => new Set([...prev, task.id]), line 112
AddId(prev, id) == prev \cup {id}

\* DeleteId with the delete forgotten
DeleteIdKeeps(prev, id) == prev

\* prev => { newSet = new Set(prev); newSet.delete(id); return newSet },
\* lines 123-127 and 161-165
DeleteId(prev, id) == prev \ {id}

\* the forEach of lines 100-129: the branch taken for each task, in order
Branches(ts, currentLocation, notified) ==
    [i \in 1..Len(ts) |-> Branch(ts[i], currentLocation, notified)]

\* the setNotifiedTasks updaters the forEach queues (lines 112 and 123-127),
\* applied in order to the current state prev; bs are the branches of ts
RECURSIVE NotifiedAfter(_, _, _, _)
NotifiedAfter(ts, bs, i, prev) ==
    IF i > Len(ts) THEN prev
    ELSE NotifiedAfter(ts, bs, i + 1,
            CASE bs[i] = "notify" -> AddId(prev, ts[i].id)
              [] bs[i] = "reset" -> DeleteId(prev, ts[i].id)
              [] bs[i] = "none" -> prev)

\* the notifications the forEach appends (line 111), in order; t is Date.now(),
\* the same millisecond for every task of one pass
RECURSIVE NewNotifications(_, _, _, _)
NewNotifications(ts, bs, i, t) ==
    IF i > Len(ts) THEN <<>>
    ELSE (IF bs[i] = "notify"
          THEN <<[id |-> t, text |-> NotifText(ts[i])]>>
          ELSE <<>>)
         \o NewNotifications(ts, bs, i + 1, t)

\* ids of the tasks of ts for which the pass takes branch b
BranchIds(ts, bs, b) == {ts[i].id : i \in {j \in 1..Len(ts) : bs[j] = b}}

\* ids of the tasks of ts from which currentLocation is beyond twice the
\* threshold: where the user "moved away"
FarIds(ts, currentLocation) ==
    {ts[i].id : i \in {j \in 1..Len(ts) :
        Greater(DistanceTo(ts[j], currentLocation), proximityThreshold * 2)}}

TaskIds(ts) == {ts[i].id : i \in 1..Len(ts)}

-----------------------------------------------------------------------------
(* Initial state: the useState initial values of lines 5-12 *)

\* the component after its first render
Mount ==
    /\ tasks = <<>>
    /\ taskName = ""
    /\ locationName = ""
    /\ googleMapsUrl = <<>>
    /\ userLocation = Null
    /\ notifications = <<>>
    /\ tracking = FALSE
    /\ notifiedTasks = {}
    /\ watching = FALSE
    /\ cbTasks = <<>>
    /\ cbNotifiedTasks = {}
    /\ now = 0
    /\ alerted = {}
    /\ alertMsg = ""
    /\ hushed = {}

\* no function of the component has been called directly
NoCall == [fn |-> "none"]

Init ==
    /\ Mount
    /\ carried = {}
    /\ callArgs = NoCall
    /\ callResult = NoCall

-----------------------------------------------------------------------------
(* Handlers *)

\* the watchPosition success callback, lines 18-25
LocationUpdate(position) ==
    \E t \in ClockReads :
        LET bs  == Branches(cbTasks, position, cbNotifiedTasks)
            new == NewNotifications(cbTasks, bs, 1, t)
        IN  /\ watching
            /\ Len(notifications) + Len(new) <= MaxNotifications
            /\ new = <<>> => t = now
            /\ userLocation' = position
            /\ notifications' = notifications \o new
            /\ notifiedTasks' = NotifiedAfter(cbTasks, bs, 1, notifiedTasks)
            /\ now' = t
            /\ KeepSubscription
            /\ alerted' = BranchIds(cbTasks, bs, "notify")
            /\ alertMsg' = ""
            /\ hushed' = (hushed \ FarIds(tasks, position))
                           \cup BranchIds(cbTasks, bs, "notify")
            /\ UNCHANGED <<tasks, taskName, locationName, googleMapsUrl,
                           tracking>>

\* the text of line 28
ErrorText == <<"Location access denied or unavailable">>

\* LocationError with tracking switched off on a failure
LocationErrorStopsTracking ==
    \E t \in ClockReads :
        /\ watching
        /\ Len(notifications) < MaxNotifications
        /\ notifications' =
             Append(notifications, [id |-> t, text |-> ErrorText])
        /\ now' = t
        /\ tracking' = FALSE
        /\ Subscribe(FALSE, tasks, notifiedTasks)
        /\ alerted' = {}
        /\ alertMsg' = ""
        /\ UNCHANGED <<tasks, taskName, locationName, googleMapsUrl,
                       userLocation, notifiedTasks, hushed>>

\* the watchPosition error callback, lines 26-29
LocationError ==
    \E t \in ClockReads :
        /\ watching
        /\ Len(notifications) < MaxNotifications
        /\ notifications' =
             Append(notifications, [id |-> t, text |-> ErrorText])
        /\ now' = t
        /\ KeepSubscription
        /\ alerted' = {}
        /\ alertMsg' = ""
        /\ UNCHANGED <<tasks, taskName, locationName, googleMapsUrl,
                       userLocation, tracking, notifiedTasks, hushed>>

FillMsg == "Please fill in all fields"
CoordsMsg == "Could not extract coordinates from Google Maps URL"

\* the task of lines 144-151
NewTask(t, coords) ==
    [id |-> t, name |-> taskName, location |-> locationName,
     lat |-> coords.lat, lng |-> coords.lng, mapsUrl |-> googleMapsUrl]

\* !coords, line 139: null is falsy, an object and a non-empty string are not
Falsy(coords) == coords.tag = "null"

\* MissingField without the check of the location name
MissingFieldNoLocation == taskName = "" \/ googleMapsUrl = <<>>

\* !taskName || !locationName || !googleMapsUrl, line 133
MissingField == taskName = "" \/ locationName = "" \/ googleMapsUrl = <<>>

\* lines 132-157
addTask ==
    \/ /\ MissingField
       /\ alertMsg' = FillMsg
       /\ alerted' = {}
       /\ KeepSubscription
       /\ UNCHANGED <<tasks, taskName, locationName, googleMapsUrl,
                      userLocation, notifications, tracking, notifiedTasks,
                      now, hushed>>
    \/ /\ ~MissingField
       /\ Falsy(extractCoordinates(googleMapsUrl))
       /\ alertMsg' = CoordsMsg
       /\ alerted' = {}
       /\ KeepSubscription
       /\ UNCHANGED <<tasks, taskName, locationName, googleMapsUrl,
                      userLocation, notifications, tracking, notifiedTasks,
                      now, hushed>>
    \/ \E t \in ClockReads :
       /\ ~MissingField
       /\ ~Falsy(extractCoordinates(googleMapsUrl))
       /\ Len(tasks) < MaxTasks
       /\ tasks' = Append(tasks, NewTask(t, extractCoordinates(googleMapsUrl)))
       /\ taskName' = ""
       /\ locationName' = ""
       /\ googleMapsUrl' = <<>>
       /\ now' = t
       /\ Subscribe(tracking, tasks', notifiedTasks)
       /\ alertMsg' = ""
       /\ alerted' = {}
       /\ UNCHANGED <<userLocation, notifications, tracking, notifiedTasks,
                      hushed>>

\* WithoutTask as a splice of the first task found with the id
WithoutFirstTask(ts, id) ==
    IF \E i \in 1..Len(ts) : ts[i].id = id
    THEN LET k == CHOOSE i \in 1..Len(ts) :
                     /\ ts[i].id = id
                     /\ \A j \in 1..(i - 1) : ts[j].id # id
         IN  SubSeq(ts, 1, k - 1) \o SubSeq(ts, k + 1, Len(ts))
    ELSE ts

\* tasks.filter(task => task.id !== id), line 160
WithoutTask(ts, id) == SelectSeq(ts, LAMBDA task : task.id # id)

\* lines 159-166; the button of line 116 passes the id of a listed task
deleteTask(id) ==
    /\ id \in TaskIds(tasks)
    /\ tasks' = WithoutTask(tasks, id)
    /\ notifiedTasks' = DeleteId(notifiedTasks, id)
    /\ Subscribe(tracking, tasks', notifiedTasks')
    /\ alerted' = {}
    /\ alertMsg' = ""
    /\ hushed' = hushed \ {id}
    /\ UNCHANGED <<taskName, locationName, googleMapsUrl, userLocation,
                   notifications, tracking, now>>

\* lines 168-176
toggleTracking ==
    /\ tracking' = ~tracking
    /\ Subscribe(tracking', tasks, notifiedTasks)
    /\ alerted' = {}
    /\ alertMsg' = ""
    /\ hushed' = {}
    /\ UNCHANGED <<tasks, taskName, locationName, googleMapsUrl, userLocation,
                   notifications, notifiedTasks, now>>

\* prev.filter(n => n.id !== id), line 179
WithoutNotification(ns, id) == SelectSeq(ns, LAMBDA n : n.id # id)

\* lines 178-180; the button of line 273 passes the id of a shown notification
dismissNotification(id) ==
    /\ id \in {notifications[i].id : i \in 1..Len(notifications)}
    /\ notifications' = WithoutNotification(notifications, id)
    /\ KeepSubscription
    /\ alerted' = {}
    /\ alertMsg' = ""
    /\ UNCHANGED <<tasks, taskName, locationName, googleMapsUrl, userLocation,
                   tracking, notifiedTasks, now, hushed>>

\* the onChange handlers of the three inputs, lines 225, 232 and 240
setTaskName(v) ==
    /\ taskName' = v
    /\ KeepSubscription
    /\ alerted' = {}
    /\ alertMsg' = ""
    /\ UNCHANGED <<tasks, locationName, googleMapsUrl, userLocation,
                   notifications, tracking, notifiedTasks, now, hushed>>

setLocationName(v) ==
    /\ locationName' = v
    /\ KeepSubscription
    /\ alerted' = {}
    /\ alertMsg' = ""
    /\ UNCHANGED <<tasks, taskName, googleMapsUrl, userLocation,
                   notifications, tracking, notifiedTasks, now, hushed>>

setGoogleMapsUrl(v) ==
    /\ googleMapsUrl' = v
    /\ KeepSubscription
    /\ alerted' = {}
    /\ alertMsg' = ""
    /\ UNCHANGED <<tasks, taskName, locationName, userLocation,
                   notifications, tracking, notifiedTasks, now, hushed>>

\* a handler of the component: `carried` is kept by SpecResume only, and no
\* function is called directly
Handled == UNCHANGED <<carried, callArgs, callResult>>

Next ==
    \/ \E position \in Positions : LocationUpdate(position) /\ Handled
    \/ LocationError /\ Handled
    \/ addTask /\ Handled
    \/ \E id \in 0..MaxClock : deleteTask(id) /\ Handled
    \/ toggleTracking /\ Handled
    \/ \E id \in 0..MaxClock : dismissNotification(id) /\ Handled
    \/ \E v \in TaskNames : setTaskName(v) /\ Handled
    \/ \E v \in LocationNames : setLocationName(v) /\ Handled
    \/ \E v \in Urls : setGoogleMapsUrl(v) /\ Handled

\* the whole application, with every input of the sets above
Spec == Init /\ [][Next]_vars

\* A user who fills the form from top to bottom, once for each task, with a
\* maps URL that carries coordinates, and a location stream that reports three
\* positions: the same handlers under fewer inputs.
FormUrls == {UrlAt}
StreamPositions ==
    { [lat |-> 400090, lng |-> -750000], [lat |-> 400180, lng |-> -750000],
      [lat |-> 400315, lng |-> -750000] }

NextFilled ==
    \/ \E position \in StreamPositions : LocationUpdate(position) /\ Handled
    \/ LocationError /\ Handled
    \/ googleMapsUrl # <<>> /\ addTask /\ Handled
    \/ \E id \in 0..MaxClock : deleteTask(id) /\ Handled
    \/ toggleTracking /\ Handled
    \/ \E id \in 0..MaxClock : dismissNotification(id) /\ Handled
    \/ taskName = "" /\ setTaskName("Buy drill") /\ Handled
    \/ /\ taskName # "" /\ locationName = "" /\ setLocationName("Home Depot")
       /\ Handled
    \/ /\ taskName # "" /\ locationName # "" /\ googleMapsUrl = <<>>
       /\ \E v \in FormUrls : setGoogleMapsUrl(v)
       /\ Handled

SpecFilled == Init /\ [][NextFilled]_vars

\* The user and the stream of SpecFilled, with the history of what a stop of
\* tracking carried over: the ids in notifiedTasks at the stop, less those a
\* later update was beyond the far threshold of and those deleted.
NoDirectCall == UNCHANGED <<callArgs, callResult>>

NextResume ==
    \/ \E position \in StreamPositions :
          /\ LocationUpdate(position)
          /\ carried' = carried \ FarIds(tasks, position)
          /\ NoDirectCall
    \/ LocationError /\ UNCHANGED carried /\ NoDirectCall
    \/ googleMapsUrl # <<>> /\ addTask /\ UNCHANGED carried /\ NoDirectCall
    \/ \E id \in 0..MaxClock :
          deleteTask(id) /\ carried' = carried \ {id} /\ NoDirectCall
    \/ /\ toggleTracking
       /\ carried' = IF tracking THEN notifiedTasks ELSE carried
       /\ NoDirectCall
    \/ \E id \in 0..MaxClock :
          dismissNotification(id) /\ UNCHANGED carried /\ NoDirectCall
    \/ /\ taskName = "" /\ setTaskName("Buy drill")
       /\ UNCHANGED carried /\ NoDirectCall
    \/ /\ taskName # "" /\ locationName = "" /\ setLocationName("Home Depot")
       /\ UNCHANGED carried /\ NoDirectCall
    \/ /\ taskName # "" /\ locationName # "" /\ googleMapsUrl = <<>>
       /\ \E v \in FormUrls : setGoogleMapsUrl(v)
       /\ UNCHANGED carried /\ NoDirectCall

SpecResume == Init /\ [][NextResume]_vars

\* A user who types into the fields in any order, leaves fields empty, pastes
\* URLs with and without coordinates and clicks Add at any time, with a
\* location stream that reports one position.
TypedUrls == {<<>>, UrlAt, UrlPlain}
NearPositions == { [lat |-> 400090, lng |-> -750000] }

NextForm ==
    \/ \E position \in NearPositions : LocationUpdate(position) /\ Handled
    \/ addTask /\ Handled
    \/ \E id \in 0..MaxClock : deleteTask(id) /\ Handled
    \/ toggleTracking /\ Handled
    \/ \E v \in TaskNames : setTaskName(v) /\ Handled
    \/ \E v \in LocationNames : setLocationName(v) /\ Handled
    \/ \E v \in TypedUrls : setGoogleMapsUrl(v) /\ Handled

SpecForm == Init /\ [][NextForm]_vars

\* the same user, who also pastes a URL whose numbers are no position on Earth
NextPaste ==
    \/ NextForm
    \/ setGoogleMapsUrl(UrlNorth) /\ Handled

SpecPaste == Init /\ [][NextPaste]_vars

-----------------------------------------------------------------------------
(* Direct calls of extractCoordinates: URLs put together from a host and path
   segments, so that what each URL holds is known from how it was built *)

\* https://maps.google.com/
HostMaps ==
    <<"h", "t", "t", "p", "s", ":", "/", "/", "m", "a", "p", "s", ".", "g",
    "o", "o", "g", "l", "e", ".", "c", "o", "m", "/">>

\* https://maps.app.goo.gl/aB3
HostApp ==
    <<"h", "t", "t", "p", "s", ":", "/", "/", "m", "a", "p", "s", ".", "a",
    "p", "p", ".", "g", "o", "o", ".", "g", "l", "/", "a", "B", "3">>

\* https://goo.gl/maps/aB3
HostGoo ==
    <<"h", "t", "t", "p", "s", ":", "/", "/", "g", "o", "o", ".", "g", "l",
    "/", "m", "a", "p", "s", "/", "a", "B", "3">>

\* https://example.com/map
HostOther ==
    <<"h", "t", "t", "p", "s", ":", "/", "/", "e", "x", "a", "m", "p", "l",
    "e", ".", "c", "o", "m", "/", "m", "a", "p">>

\* /@40.0000,-75.0000,15z
SegAt ==
    <<"/", "@", "4", "0", ".", "0", "0", "0", "0", ",", "-", "7", "5", ".",
    "0", "0", "0", "0", ",", "1", "5", "z">>

\* ?q=41.0000,-76.0000
SegQuery ==
    <<"?", "q", "=", "4", "1", ".", "0", "0", "0", "0", ",", "-", "7", "6",
    ".", "0", "0", "0", "0">>

\* /data=!3d42.0000!4d-77.0000
SegData ==
    <<"/", "d", "a", "t", "a", "=", "!", "3", "d", "4", "2", ".", "0", "0",
    "0", "0", "!", "4", "d", "-", "7", "7", ".", "0", "0", "0", "0">>

\* /maps/place/Depot/@43.0000,-78.0000
SegPlace ==
    <<"/", "m", "a", "p", "s", "/", "p", "l", "a", "c", "e", "/", "D", "e",
    "p", "o", "t", "/", "@", "4", "3", ".", "0", "0", "0", "0", ",", "-", "7",
    "8", ".", "0", "0", "0", "0">>

\* /@44,-79,15z
SegWhole ==
    <<"/", "@", "4", "4", ",", "-", "7", "9", ",", "1", "5", "z">>

\* &ref=goo.gl
SegRef ==
    <<"&", "r", "e", "f", "=", "g", "o", "o", ".", "g", "l">>

Hosts == {HostMaps, HostApp, HostGoo, HostOther}
SegmentNames == {"at", "q", "d", "place", "int", "ref"}

SegmentText(name) ==
    CASE name = "at" -> SegAt
      [] name = "q" -> SegQuery
      [] name = "d" -> SegData
      [] name = "place" -> SegPlace
      [] name = "int" -> SegWhole
      [] name = "ref" -> SegRef

\* the segments of a path, joined
RECURSIVE Join(_)
Join(path) ==
    IF path = <<>> THEN <<>> ELSE SegmentText(Head(path)) \o Join(Tail(path))

\* the paths of at most MaxSegments segments, each segment at most once
Paths ==
    {path \in UNION {[1..n -> SegmentNames] : n \in 0..MaxSegments} :
        \A i, j \in DOMAIN path : i # j => path[i] # path[j]}

\* the argument of a call: a URL given by its host and its path, or no string
ExtractCalls ==
    {[fn |-> "extractCoordinates", host |-> h, path |-> path] :
        h \in Hosts, path \in Paths}
      \cup {[fn |-> "extractCoordinates", host |-> NotAString, path |-> <<>>]}

UrlOf(args) ==
    IF args.host = NotAString THEN NotAString ELSE args.host \o Join(args.path)

\* coords = extractCoordinates(url)
Extract ==
    /\ callArgs.fn = "extractCoordinates"
    /\ callResult = NoCall
    /\ callResult' = [fn |-> "extractCoordinates",
                      value |-> extractCoordinates(UrlOf(callArgs))]
    /\ UNCHANGED <<tasks, taskName, locationName, googleMapsUrl, userLocation,
                   notifications, tracking, notifiedTasks, watching, cbTasks,
                   cbNotifiedTasks, now, alerted, alertMsg, hushed, carried,
                   callArgs>>

InitExtract ==
    /\ Mount
    /\ carried = {}
    /\ callArgs \in ExtractCalls
    /\ callResult = NoCall

SpecExtract == InitExtract /\ [][Extract]_vars

-----------------------------------------------------------------------------
(* Direct calls of calculateDistance, on pairs of points of one meridian and
   on pairs of points of the equator *)

MeridianPoints ==
    {[lat |-> x, lng |-> -750000] :
        x \in {400000, 400001, 400090, 400315, -100000, 900000, -900000}}

EquatorPoints ==
    {[lat |-> 0, lng |-> x] : x \in {0, 1, 10000, -750000, 1790000, -1790000}}
      \cup {[lat |-> MinValue, lng |-> 0], [lat |-> 0, lng |-> MinValue]}

DistanceCalls ==
    {[fn |-> "calculateDistance", a |-> a, b |-> b] :
        a \in MeridianPoints, b \in MeridianPoints}
      \cup {[fn |-> "calculateDistance", a |-> a, b |-> b] :
                a \in EquatorPoints, b \in EquatorPoints}

\* calculateDistance(a, b) and calculateDistance(b, a)
Measure ==
    /\ callArgs.fn = "calculateDistance"
    /\ callResult = NoCall
    /\ callResult' =
          [fn |-> "calculateDistance",
           there |-> calculateDistance(callArgs.a.lat, callArgs.a.lng,
                                       callArgs.b.lat, callArgs.b.lng),
           back |-> calculateDistance(callArgs.b.lat, callArgs.b.lng,
                                      callArgs.a.lat, callArgs.a.lng)]
    /\ UNCHANGED <<tasks, taskName, locationName, googleMapsUrl, userLocation,
                   notifications, tracking, notifiedTasks, watching, cbTasks,
                   cbNotifiedTasks, now, alerted, alertMsg, hushed, carried,
                   callArgs>>

InitDistance ==
    /\ Mount
    /\ carried = {}
    /\ callArgs \in DistanceCalls
    /\ callResult = NoCall

SpecDistance == InitDistance /\ [][Measure]_vars

-----------------------------------------------------------------------------
(* Claims *)

\* the listed tasks within the near threshold of a position, and beyond the
\* far threshold (twice the near one)
IsNear(task, position) ==
    LessEq(DistanceTo(task, position), proximityThreshold)
IsFar(task, position) ==
    Greater(DistanceTo(task, position), 2 * proximityThreshold)

\* the step is a delivery of some position to the success callback
IsLocationUpdate == \E position \in Positions : LocationUpdate(position)

\* the step is a click on Add that appends a task
IsTaskAdded == addTask /\ Len(tasks') = Len(tasks) + 1

\* C1 (hysteresis): a task that was alerted for, has stayed in the list with
\* tracking on, and from which no later update was beyond the far threshold
\* (its id is in hushed) is not alerted for again.
C1_Hysteresis == [][hushed \cap alerted' = {}]_vars

\* C2 (idempotence), for a first delivery that alerted: when the handler that
\* ran last was a location update that alerted and the same position is
\* delivered again, the second delivery alerts for nothing and leaves
\* notifiedTasks as it is.
C2_Idempotent ==
    [][(alerted # {} /\ LocationUpdate(userLocation))
          => (alerted' = {} /\ notifiedTasks' = notifiedTasks)]_vars

\* C3 (re-arm and alert): with tracking on, a location update within the near
\* threshold of a listed task whose id is not in notifiedTasks alerts for it.
C3_ArmedAlerts ==
    [][IsLocationUpdate =>
          \A i \in 1..Len(tasks) :
              (tracking /\ tasks[i].id \notin notifiedTasks
                 /\ IsNear(tasks[i], userLocation'))
                  => tasks[i].id \in alerted']_vars

\* C4 (short or unparseable URL): a click on Add with the three fields filled
\* and a URL for which extractCoordinates returns 'SHORT_URL' or null leaves
\* tasks and notifiedTasks as they are and shows a message.
C4_NoTaskWithoutCoords ==
    [][(/\ addTask
        /\ taskName # "" /\ locationName # "" /\ googleMapsUrl # <<>>
        /\ extractCoordinates(googleMapsUrl).tag \in {"SHORT_URL", "null"})
          => (tasks' = tasks /\ notifiedTasks' = notifiedTasks
                /\ alertMsg' # "")]_vars

\* C5 (unique ids): no two tasks of the list share an id.
C5_UniqueIds ==
    \A i, j \in 1..Len(tasks) : i # j => tasks[i].id # tasks[j].id

\* C6: every id in notifiedTasks is the id of a listed task.
C6_NotifiedAreListed == notifiedTasks \subseteq TaskIds(tasks)

\* a listed task is suppressed while another listed task is not
C6_Witness ==
    /\ notifiedTasks # {}
    /\ \E i \in 1..Len(tasks) : tasks[i].id \notin notifiedTasks

\* C7: after deleteTask(id) no listed task has the id and notifiedTasks does
\* not hold it.
C7_DeletePurges ==
    [][\A id \in 0..MaxClock :
          deleteTask(id) =>
              (id \notin TaskIds(tasks') /\ id \notin notifiedTasks')]_vars

\* a task was alerted for (its reminder is still shown) and then deleted: the
\* list is empty again and so is notifiedTasks
C7_Witness ==
    /\ tasks = <<>>
    /\ notifiedTasks = {}
    /\ \E k \in 1..Len(notifications) : notifications[k].text # ErrorText

\* C8 (a new task starts armed): the id of a task just added is not in
\* notifiedTasks.
C8_NewTaskArmed ==
    [][IsTaskAdded => tasks'[Len(tasks')].id \notin notifiedTasks']_vars

\* C9 (far exit): a location update beyond the far threshold of a listed task
\* alerts for no task of that id and leaves the id out of notifiedTasks.
C9_FarExit ==
    [][IsLocationUpdate =>
          \A i \in 1..Len(tasks) :
              IsFar(tasks[i], userLocation')
                  => (tasks[i].id \notin alerted'
                        /\ tasks[i].id \notin notifiedTasks')]_vars

\* C10 (location failure): the error callback leaves tracking on and the
\* subscription in place, runs no proximity pass (no alert, no new position),
\* leaves tasks and notifiedTasks as they are, and appends one notification
\* with the error text.
C10_ErrorIsPassive ==
    [][LocationError =>
          (/\ tracking' /\ watching'
           /\ alerted' = {}
           /\ userLocation' = userLocation
           /\ tasks' = tasks
           /\ notifiedTasks' = notifiedTasks
           /\ Len(notifications') = Len(notifications) + 1
           /\ SubSeq(notifications', 1, Len(notifications)) = notifications
           /\ notifications'[Len(notifications')].text = ErrorText)]_vars

\* the error notification is shown while tracking is on and a listed task is
\* suppressed
C10_Witness ==
    /\ tracking
    /\ notifiedTasks # {}
    /\ tasks # <<>>
    /\ \E k \in 1..Len(notifications) : notifications[k].text = ErrorText

\* C11 (stop and resume): a click that stops tracking leaves tasks,
\* notifiedTasks and the shown notifications as they are; while tracking is off
\* no handler alerts or adds a notification; and a task whose id was in
\* notifiedTasks at the stop is not alerted for after tracking resumes, until an
\* update was beyond the far threshold of it or it was deleted.
C11_StopKeepsSuppression ==
    [][/\ (toggleTracking /\ tracking)
            => (/\ tasks' = tasks
                /\ notifiedTasks' = notifiedTasks
                /\ notifications' = notifications)
       /\ ~tracking
            => (alerted' = {} /\ Len(notifications') <= Len(notifications))
       /\ carried \cap alerted' = {}]_vars

\* after a stop and a resume an update within the near threshold of two tasks
\* alerted for the one that was not suppressed at the stop and not for the one
\* that was
C11_Witness ==
    /\ tracking
    /\ alerted # {}
    /\ \E i \in 1..Len(tasks) :
          /\ tasks[i].id \in carried
          /\ tasks[i].id \notin alerted
          /\ IsNear(tasks[i], userLocation)

\* C12 (validation failure): a click on Add with the name, the location or the
\* URL empty leaves the task list, notifiedTasks, the notifications, the three
\* form fields, the position and the tracking switch as they are, and reports
\* the missing field.
C12_MissingFieldIsInert ==
    [][(addTask /\ (taskName = "" \/ locationName = "" \/ googleMapsUrl = <<>>))
          => (/\ tasks' = tasks
              /\ notifiedTasks' = notifiedTasks
              /\ notifications' = notifications
              /\ taskName' = taskName
              /\ locationName' = locationName
              /\ googleMapsUrl' = googleMapsUrl
              /\ userLocation' = userLocation
              /\ tracking' = tracking
              /\ alertMsg' = FillMsg)]_vars

\* the missing field was reported while a task was listed and suppressed and
\* the form was filled in part
C12_Witness ==
    /\ alertMsg = FillMsg
    /\ tasks # <<>>
    /\ notifiedTasks # {}
    /\ notifications # <<>>
    /\ taskName # "" \/ locationName # "" \/ googleMapsUrl # <<>>

\* C14 (task coordinates): every listed task has a latitude and a longitude
\* that are numbers, the latitude in [-90, 90] and the longitude in
\* [-180, 180] degrees.
C14_TaskCoordsInRange ==
    \A i \in 1..Len(tasks) :
        /\ tasks[i].lat # Undefined
        /\ tasks[i].lng # Undefined
        /\ tasks[i].lat >= -900000 /\ tasks[i].lat <= 900000
        /\ tasks[i].lng >= -1800000 /\ tasks[i].lng <= 1800000

\* what a URL built from a host and a path holds: the coordinates written in
\* each of its segments, and whether it names a short-link domain
Written(name) ==
    CASE name = "at" -> [tag |-> "coords", lat |-> 400000, lng |-> -750000]
      [] name = "q" -> [tag |-> "coords", lat |-> 410000, lng |-> -760000]
      [] name = "d" -> [tag |-> "coords", lat |-> 420000, lng |-> -770000]
      [] name = "place" -> [tag |-> "coords", lat |-> 430000, lng |-> -780000]
HasMarker(args) ==
    \/ args.host \in {HostApp, HostGoo}
    \/ \E i \in DOMAIN args.path : args.path[i] = "ref"

\* the segments of a path that hold an "@lat,lng" with decimals
AtSegments(path) == {i \in DOMAIN path : path[i] \in {"at", "place"}}

\* what the claim says extract returns for it: the pair of the first of the
\* four patterns, in their order, that the URL holds (the leftmost "@lat,lng"
\* for the first pattern); else NeedsExpansion when it names a short-link
\* domain and Unparseable when it does not; Unparseable for what is no string
Classified(args) ==
    IF args.host = NotAString THEN NoCoords
    ELSE IF AtSegments(args.path) # {}
    THEN Written(args.path[CHOOSE i \in AtSegments(args.path) :
                              \A j \in AtSegments(args.path) : i <= j])
    ELSE IF \E i \in DOMAIN args.path : args.path[i] = "q" THEN Written("q")
    ELSE IF \E i \in DOMAIN args.path : args.path[i] = "d" THEN Written("d")
    ELSE IF HasMarker(args) THEN ShortUrl
    ELSE NoCoords

\* C13 (extractor classification): a call of extractCoordinates returns what
\* Classified says for its argument.
C13_ExtractClassifies ==
    callResult.fn = "extractCoordinates"
        => callResult.value = Classified(callArgs)

\* the call was made on a short-link URL whose text holds a q= pair before an
\* @ pair, and returned the @ pair
C13_Witness ==
    /\ callResult.fn = "extractCoordinates"
    /\ callArgs.host = HostApp
    /\ callArgs.path = <<"q", "at">>
    /\ callResult.value = Written("at")

Within90(a, b) ==
    /\ Abs(Underflowed(a.lat) - Underflowed(b.lat)) <= 900000
    /\ Abs(Underflowed(a.lng) - Underflowed(b.lng)) <= 900000
LatitudesApart(a, b) == Abs(Underflowed(a.lat) - Underflowed(b.lat)) >= 1

C16_Lockstep ==
    [][IsLocationUpdate =>
          /\ Len(notifications') - Len(notifications)
                <= Cardinality({i \in 1..Len(tasks) : tasks[i].id \in alerted'})
          /\ \A i \in 1..Len(tasks) :
                tasks[i].id \in alerted'
                    <=> (IsNear(tasks[i], userLocation')
                           /\ tasks[i].id \notin notifiedTasks)
          /\ notifiedTasks' \ notifiedTasks = alerted']_vars

\* beyond the near threshold and not beyond the far one
IsBetween(task, position) ==
    /\ Greater(DistanceTo(task, position), proximityThreshold)
    /\ LessEq(DistanceTo(task, position), 2 * proximityThreshold)

\* C17 (between the thresholds): a location update at a distance from a listed
\* task above the near threshold and not above the far one alerts for no task
\* of that id and leaves the id in, or out of, notifiedTasks as it was.
C17_BetweenIsInert ==
    [][IsLocationUpdate =>
          \A i \in 1..Len(tasks) :
              IsBetween(tasks[i], userLocation')
                  => (/\ tasks[i].id \notin alerted'
                      /\ tasks[i].id \in notifiedTasks'
                            <=> tasks[i].id \in notifiedTasks)]_vars

\* C18 (snapshot): every proximity pass runs over the task list as it is when
\* the position arrives, alerts and suppresses only for listed tasks and
\* leaves the list as it is; after deleteTask(id) the subscribed callback holds
\* no task of that id.
C18_PassSeesCurrentTasks ==
    [][/\ IsLocationUpdate
            => (/\ cbTasks = tasks
                /\ tasks' = tasks
                /\ alerted' \subseteq TaskIds(tasks)
                /\ (notifiedTasks' \ notifiedTasks) \subseteq TaskIds(tasks))
       /\ \A id \in 0..MaxClock :
             deleteTask(id) => id \notin TaskIds(cbTasks')]_vars

\* a pass alerted for the one listed task, created at clock 1, while a
\* reminder emitted at clock 0, for a task since deleted, is still shown
C18_Witness ==
    /\ Len(tasks) = 1
    /\ tasks[1].id = 1
    /\ alerted = {1}
    /\ \E k \in 1..Len(notifications) :
          notifications[k].id = 0 /\ notifications[k].text # ErrorText

\* C19 (dismissal): dismissNotification(id) removes one notification and
\* leaves the others, in their order.
C19_DismissRemovesOne ==
    [][\A id \in 0..MaxClock :
          dismissNotification(id) =>
              \E k \in 1..Len(notifications) :
                  /\ notifications[k].id = id
                  /\ notifications' =
                        SubSeq(notifications, 1, k - 1)
                          \o SubSeq(notifications, k + 1, Len(notifications))]_vars

\* C20 (deletion frame): deleteTask(id) removes one task of that id and leaves
\* the other tasks, in their order and with their fields; the ids of the tasks
\* that stay are in notifiedTasks after it exactly when they were before.
C20_DeleteRemovesOne ==
    [][\A id \in 0..MaxClock :
          deleteTask(id) =>
              \E k \in 1..Len(tasks) :
                  /\ tasks[k].id = id
                  /\ tasks' = SubSeq(tasks, 1, k - 1)
                                \o SubSeq(tasks, k + 1, Len(tasks))
                  /\ \A i \in 1..Len(tasks) :
                        i # k => (tasks[i].id \in notifiedTasks'
                                    <=> tasks[i].id \in notifiedTasks)]_vars

====
